---- MODULE Spec2Model ----
(***************************************************************************)
(* Model of sandboxes/opencsg/main.cpp: the RecorderMouseInput decorator   *)
(* (event log, record/play state, save/load text format) and the SLAJob    *)
(* background job that MyFrame::load_model starts.                         *)
(*                                                                         *)
(* The interactive context is single threaded and cooperative, so one      *)
(* action is one handler run up to the point where it returns or suspends  *)
(* in wxSafeYield().  While play() is suspended there, the host event loop *)
(* may run the handlers bound in MyFrame (the mouse handlers of            *)
(* bind_canvas_events and the record button), which call back into the     *)
(* recorder.                                                               *)
(***************************************************************************)
EXTENDS Integers, Sequences, FiniteSets, TLC

---------------------------------------------------------------------------
(* Bounds of the model *)

\* longest log a recording session may build
MaxLog == 2

\* positions the motion handler reports (x, y)
Points == {<<-1, 2>>, <<2, -1>>}

\* wheel readings the wheel handler reports (rotation, delta)
Wheel == {<<2, -1>>}

\* representative outcomes of reading an indeterminate (uninitialised or
\* dangling) integer: the ordinal of a kind, and a value that is no ordinal
Indeterminate == {0, 7}

---------------------------------------------------------------------------
(* enum EEvents and struct Event *)

LCLK_U == 0
RCLK_U == 1
LCLK_D == 2
RCLK_D == 3
DDCLK == 4
SCRL == 5
MV == 6

Event(t, x, y) == [type |-> t, a |-> x, b |-> y]

(* A call of the MouseInput interface as a listener receives it. *)
waVertical == "waVertical"
waHorizontal == "waHorizontal"
NoAxis == "-"
WheelAxis == {waVertical, waHorizontal}

Call(m, x, y, wa) == [m |-> m, a |-> x, b |-> y, wa |-> wa]

NoCall == Call("none", 0, 0, NoAxis)
NoEvent == Event(-1, 0, 0)

---------------------------------------------------------------------------
VARIABLES
    m_events,      \* RecorderMouseInput::m_events
    m_recording,   \* RecorderMouseInput::m_recording
    m_playing,     \* RecorderMouseInput::m_playing
    pc,            \* where play() is: "idle" (not running), "yield"
                   \* (suspended in wxSafeYield), "crashed"
    it_pos,        \* play(): index of the event the range-for is at
    it_end,        \* play(): end of the range-for, taken when the loop starts
    it_valid,      \* play(): the loop's iterators still refer to m_events
    play_rec,      \* m_recording as it was when the running play() started
    last,          \* the last operation: its name, argument, the effects it
                   \* had in code order and the calls the listeners received
    live,          \* calls the listeners received from report operations
                   \* that were logged, since the last record(true)
    stream,        \* the text of the event file, after its header line
    written,       \* the log that save() wrote into stream
    ending,        \* how the text was left after save(): "saved" as
                   \* written, or the name of the change made to its end
    m_ui_job,      \* MyFrame::m_ui_job: 0 (empty) or the job it owns
    jobs,          \* every SLAJob made so far, in the order of creation
    evq,           \* events the worker contexts have queued for the
                   \* interactive context, oldest first
    m_scene,       \* the print the Scene holds
    m_stbar,       \* the status bar: progress and text shown
    frame_open,    \* the frame has not been closed
    args,          \* the command line: argc, argv[1] and whether the file
                   \* argv[2] can be opened
    oninit,        \* App::OnInit has run
    header,        \* the header line of the event file
    record_btn,    \* the value of the Record toggle button
    m_csgsettings, \* the CSGSettings the Display (m_canvas) holds
    widgets        \* the values the settings controls show

recvars == <<m_events, m_recording, m_playing, pc, it_pos, it_end, it_valid,
             play_rec, last, live>>

filevars == <<stream, written, ending>>

jobvars == <<m_ui_job, jobs, evq, m_scene, m_stbar, frame_open>>

appvars == <<args, oninit, header, record_btn, m_csgsettings, widgets>>

vars == <<recvars, filevars, jobvars, appvars>>

---------------------------------------------------------------------------
(* Effects of one handler, in the order the code has them. *)

Log(e) == [k |-> "log", e |-> e, c |-> NoCall]
Fwd(c) == [k |-> "fwd", e |-> NoEvent, c |-> c]

IsLog(x) == x.k = "log"
IsFwd(x) == x.k = "fwd"

Logged(fx) == LET s == SelectSeq(fx, IsLog) IN [i \in 1..Len(s) |-> s[i].e]
Forwarded(fx) == LET s == SelectSeq(fx, IsFwd) IN [i \in 1..Len(s) |-> s[i].c]
Kinds(fx) == [i \in 1..Len(fx) |-> fx[i].k]

Last(op, c, r, fx) ==
    [op |-> op, call |-> c, r |-> r, fx |-> Kinds(fx), out |-> Forwarded(fx)]

(* MouseInput::<method>(): the call of the base-class method, which hands it to the
   registered listeners (m_ctl, added in bind_canvas_events). *)
MouseInput(c) == <<Fwd(c)>>

(* A report operation with the effects fx, applied to the recorder. A
   change of m_events while play() is suspended invalidates the iterators
   of its range-for. *)
Report(c, fx) ==
    /\ pc \in {"idle", "yield"}
    /\ Len(m_events) + Len(Logged(fx)) <= MaxLog
    /\ m_events' = m_events \o Logged(fx)
    /\ it_valid' = IF pc = "yield" /\ Logged(fx) # <<>> THEN FALSE ELSE it_valid
    /\ live' = IF Logged(fx) # <<>> THEN live \o Forwarded(fx) ELSE live
    /\ last' = Last("report", c, FALSE, fx)
    /\ UNCHANGED <<m_recording, m_playing, pc, it_pos, it_end, play_rec>>
    /\ UNCHANGED <<filevars, jobvars, appvars>>

left_click_down ==
    LET c == Call("left_click_down", 0, 0, NoAxis) IN
    Report(c, (IF m_recording THEN <<Log(Event(LCLK_D, 0, 0))>> ELSE <<>>)
              \o (IF ~m_playing THEN MouseInput(c) ELSE <<>>))

left_click_up ==
    LET c == Call("left_click_up", 0, 0, NoAxis) IN
    Report(c, (IF m_recording THEN <<Log(Event(LCLK_U, 0, 0))>> ELSE <<>>)
              \o (IF ~m_playing THEN MouseInput(c) ELSE <<>>))

right_click_down ==
    LET c == Call("right_click_down", 0, 0, NoAxis) IN
    Report(c, (IF m_recording THEN <<Log(Event(RCLK_D, 0, 0))>> ELSE <<>>)
              \o (IF ~m_playing THEN MouseInput(c) ELSE <<>>))

right_click_up_logs_down ==
    LET c == Call("right_click_up", 0, 0, NoAxis) IN
    Report(c, (IF m_recording THEN <<Log(Event(RCLK_D, 0, 0))>> ELSE <<>>)
              \o (IF ~m_playing THEN MouseInput(c) ELSE <<>>))

right_click_up ==
    LET c == Call("right_click_up", 0, 0, NoAxis) IN
    Report(c, (IF m_recording THEN <<Log(Event(RCLK_U, 0, 0))>> ELSE <<>>)
              \o (IF ~m_playing THEN MouseInput(c) ELSE <<>>))

double_click ==
    LET c == Call("double_click", 0, 0, NoAxis) IN
    Report(c, (IF m_recording THEN <<Log(Event(DDCLK, 0, 0))>> ELSE <<>>)
              \o (IF ~m_playing THEN MouseInput(c) ELSE <<>>))

scroll(v, d, wa) ==
    LET c == Call("scroll", v, d, wa) IN
    Report(c, (IF m_recording THEN <<Log(Event(SCRL, v, d))>> ELSE <<>>)
              \o (IF ~m_playing THEN MouseInput(c) ELSE <<>>))

move_to(x, y) ==
    LET c == Call("move_to", x, y, NoAxis) IN
    Report(c, (IF m_recording THEN <<Log(Event(MV, x, y))>> ELSE <<>>)
              \o (IF ~m_playing THEN MouseInput(c) ELSE <<>>))

---------------------------------------------------------------------------
(* record(bool r) *)

record_keeps_log(r) ==
    /\ pc \in {"idle", "yield"}
    /\ m_recording' = r
    /\ UNCHANGED <<m_events, it_valid>>
    /\ live' = IF r THEN <<>> ELSE live
    /\ last' = Last("record", NoCall, r, <<>>)
    /\ UNCHANGED <<m_playing, pc, it_pos, it_end, play_rec>>
    /\ UNCHANGED <<filevars, jobvars, appvars>>

record(r) ==
    /\ pc \in {"idle", "yield"}
    /\ m_recording' = r
    /\ m_events' = IF r THEN <<>> ELSE m_events
    /\ it_valid' = IF pc = "yield" /\ r THEN FALSE ELSE it_valid
    /\ live' = IF r THEN <<>> ELSE live
    /\ last' = Last("record", NoCall, r, <<>>)
    /\ UNCHANGED <<m_playing, pc, it_pos, it_end, play_rec>>
    /\ UNCHANGED <<filevars, jobvars, appvars>>

---------------------------------------------------------------------------
(* play() *)

(* The switch of play(): the base-class call an event is replayed as; an
   ordinal outside the enum matches no case. *)
Inject(evt) ==
    CASE evt.type = LCLK_U -> MouseInput(Call("left_click_up", 0, 0, NoAxis))
      [] evt.type = LCLK_D -> MouseInput(Call("left_click_down", 0, 0, NoAxis))
      [] evt.type = RCLK_U -> MouseInput(Call("right_click_up", 0, 0, NoAxis))
      [] evt.type = RCLK_D -> MouseInput(Call("right_click_down", 0, 0, NoAxis))
      [] evt.type = DDCLK -> MouseInput(Call("double_click", 0, 0, NoAxis))
      [] evt.type = SCRL -> MouseInput(Call("scroll", evt.a, evt.b, waVertical))
      [] evt.type = MV -> MouseInput(Call("move_to", evt.a, evt.b, NoAxis))
      [] OTHER -> <<>>

(* What the range-for reads at position i: the element while the iterators
   are valid, anything once the vector was changed under them. *)
Deref(i) ==
    IF it_valid THEN {m_events[i]}
    ELSE {Event(t, x, y) : t \in Indeterminate, x \in Indeterminate,
                           y \in Indeterminate}

(* play() from its call to its first wxSafeYield(), or to its return when
   the log is empty. *)
play ==
    /\ pc = "idle"
    /\ it_valid' = TRUE
    /\ UNCHANGED <<m_events, m_recording, live>>
    /\ UNCHANGED <<filevars, jobvars, appvars>>
    /\ IF m_events = <<>>
       THEN /\ m_playing' = FALSE
            /\ pc' = "idle"
            /\ it_pos' = 0
            /\ it_end' = 0
            /\ play_rec' = FALSE
            /\ last' = Last("play", NoCall, FALSE, <<>>)
       ELSE /\ m_playing' = TRUE
            /\ pc' = "yield"
            /\ it_pos' = 1
            /\ it_end' = Len(m_events)
            /\ play_rec' = m_recording
            /\ last' = Last("play", NoCall, FALSE,
                            Inject(m_events[1]) \o <<[k |-> "yield", e |-> NoEvent, c |-> NoCall]>>)

(* wxSafeYield() returns: the loop goes on to the next event and the next
   yield, or ends and play() returns. *)
play_resume ==
    /\ pc = "yield"
    /\ UNCHANGED <<m_events, m_recording, live>>
    /\ UNCHANGED <<filevars, jobvars, appvars>>
    /\ IF it_pos < it_end
       THEN \E evt \in Deref(it_pos + 1) :
            /\ it_pos' = it_pos + 1
            /\ UNCHANGED <<it_end, it_valid, play_rec>>
            /\ m_playing' = m_playing
            /\ pc' = "yield"
            /\ last' = Last("resume", NoCall, FALSE,
                            Inject(evt) \o <<[k |-> "yield", e |-> NoEvent, c |-> NoCall]>>)
       ELSE /\ it_pos' = 0
            /\ it_end' = 0
            /\ it_valid' = TRUE
            /\ m_playing' = FALSE
            /\ pc' = "idle"
            /\ play_rec' = FALSE
            /\ last' = Last("return", NoCall, FALSE, <<>>)

(* The loop runs on invalidated iterators: the process may also fault. *)
play_fault ==
    /\ pc = "yield"
    /\ ~it_valid
    /\ it_pos < it_end
    /\ pc' = "crashed"
    /\ last' = Last("fault", NoCall, FALSE, <<>>)
    /\ UNCHANGED <<m_events, m_recording, m_playing, it_pos, it_end, it_valid,
                   play_rec, live>>
    /\ UNCHANGED <<filevars, jobvars, appvars>>

---------------------------------------------------------------------------
(* save(std::ostream &) and load(std::istream &): the text is a sequence of
   characters. *)

Digits == <<"0", "1", "2", "3", "4", "5", "6", "7", "8", "9">>

IsDigit(ch) == \E d \in 1..10 : Digits[d] = ch
DigitVal(ch) == (CHOOSE d \in 1..10 : Digits[d] = ch) - 1
IsSpace(ch) == ch \in {" ", "\n"}

(* operator<< of an integer: decimal digits, a minus sign when negative *)
RECURSIVE FormatNat(_)
FormatNat(n) ==
    IF n < 10 THEN <<Digits[n + 1]>>
    ELSE FormatNat(n \div 10) \o <<Digits[(n % 10) + 1]>>

FormatInt_unsigned(n) == FormatNat(IF n < 0 THEN 0 - n ELSE n)

FormatInt(n) == IF n < 0 THEN <<"-">> \o FormatNat(0 - n) ELSE FormatNat(n)

(* what save() writes for the events evts *)
RECURSIVE Written(_)
Written(evts) ==
    IF evts = <<>> THEN <<>>
    ELSE FormatInt(Head(evts).type) \o <<" ">> \o FormatInt(Head(evts).a)
         \o <<" ">> \o FormatInt(Head(evts).b) \o <<"\n">>
         \o Written(Tail(evts))

save ==
    /\ pc = "idle"
    /\ ~m_recording
    /\ Len(m_events) <= MaxLog
    /\ stream' = Written(m_events)
    /\ written' = m_events
    /\ ending' = "saved"
    /\ last' = Last("save", NoCall, FALSE, <<>>)
    /\ UNCHANGED <<m_events, m_recording, m_playing, pc, it_pos, it_end,
                   it_valid, play_rec, live>>
    /\ UNCHANGED <<jobvars, appvars>>

(* An input stream: the text, the read position and the state bits. *)
IStream(text) == [buf |-> text, pos |-> 1, eof |-> FALSE, fail |-> FALSE]

good(st) == ~st.eof /\ ~st.fail

RECURSIVE SkipWs(_, _)
SkipWs(buf, pos) ==
    IF pos <= Len(buf) /\ IsSpace(buf[pos]) THEN SkipWs(buf, pos + 1) ELSE pos

RECURSIVE ScanDigits(_, _, _)
ScanDigits(buf, pos, acc) ==
    IF pos <= Len(buf) /\ IsDigit(buf[pos])
    THEN ScanDigits(buf, pos + 1, acc * 10 + DigitVal(buf[pos]))
    ELSE [pos |-> pos, val |-> acc]

(* operator>> of an integer. A stream that is not good, or that ends while
   white space is skipped, sets failbit and stores nothing (set = FALSE);
   a token that is no number sets failbit and stores 0; a number that runs
   to the end of the text sets eofbit. *)
Extract(st) ==
    IF ~good(st)
    THEN [st |-> [st EXCEPT !.fail = TRUE], set |-> FALSE, val |-> 0]
    ELSE LET p == SkipWs(st.buf, st.pos) IN
         IF p > Len(st.buf)
         THEN [st |-> [st EXCEPT !.pos = p, !.eof = TRUE, !.fail = TRUE],
               set |-> FALSE, val |-> 0]
         ELSE LET neg == st.buf[p] = "-"
                  q == IF neg THEN p + 1 ELSE p
                  sc == ScanDigits(st.buf, q, 0)
              IN IF sc.pos = q
                 THEN [st |-> [st EXCEPT !.pos = q, !.fail = TRUE,
                                         !.eof = q > Len(st.buf)],
                       set |-> TRUE, val |-> 0]
                 ELSE [st |-> [st EXCEPT !.pos = sc.pos,
                                         !.eof = sc.pos > Len(st.buf)],
                       set |-> TRUE,
                       val |-> IF neg THEN 0 - sc.val ELSE sc.val]

(* The value of a local after operator>>: what was stored, or an
   indeterminate value when nothing was stored into the uninitialised
   local. *)
Local(r) == IF r.set THEN {r.val} ELSE Indeterminate

(* The loop of load(): the logs it can build from the stream st on top of
   evts. *)
RECURSIVE LoadLoop(_, _)
LoadLoop(st, evts) ==
    IF ~good(st) THEN {evts}
    ELSE LET r1 == Extract(st)
             r2 == Extract(r1.st)
             r3 == Extract(r2.st)
         IN UNION { LoadLoop(r3.st, Append(evts, Event(t, x, y))) :
                    t \in Local(r1), x \in Local(r2), y \in Local(r3) }

load ==
    /\ pc = "idle"
    /\ ~m_recording
    /\ ending # "none"
    /\ m_events' \in LoadLoop(IStream(stream), <<>>)
    /\ last' = Last("load", NoCall, FALSE, <<>>)
    /\ UNCHANGED <<m_recording, m_playing, pc, it_pos, it_end, it_valid,
                   play_rec, live>>
    /\ UNCHANGED <<filevars, jobvars, appvars>>

(* The event file is changed outside the program before it is loaded: its
   final newline is cut, or white space, an incomplete record or a token
   that is no number is added at its end. *)
Endings ==
    [ cut |-> <<>>,
      blank |-> <<" ", "\n">>,
      one |-> <<"6">>,
      two |-> <<"6", " ", "1", "\n">>,
      junk |-> <<"x", "\n">> ]

edit_file(e) ==
    /\ ending = "saved"
    /\ e = "cut" => stream # <<>>
    /\ stream' = IF e = "cut" THEN SubSeq(stream, 1, Len(stream) - 1)
                  ELSE stream \o Endings[e]
    /\ ending' = e
    /\ last' = Last("edit", NoCall, FALSE, <<>>)
    /\ UNCHANGED <<written>>
    /\ UNCHANGED <<m_events, m_recording, m_playing, pc, it_pos, it_end,
                   it_valid, play_rec, live>>
    /\ UNCHANGED <<jobvars, appvars>>

---------------------------------------------------------------------------
(* MyFrame::load_model, MyFrame::SLAJob and the Job it derives from.  Job
   itself (slic3r/GUI/Job.hpp) is modelled from its contract: start() runs
   process() on a worker context; update_status() queues a status report
   for the interactive context; when process() has returned, or a failure
   left it, the completion is queued, and the interactive context then runs
   finalize(); nothing is delivered to a job that was destroyed. *)

\* jobs that load_model may start in one run
MaxJobs == 2

\* progress values the slicer reports while it runs, in rising order
Percents == {50}

Files == {"a.3mf"}

\* what() of the exceptions the slicer throws
Whats == {"empty model"}

NoPrint == [job |-> 0, print |-> "none"]

StatusEvt(j, pct, txt) == [job |-> j, kind |-> "status", percent |-> pct, text |-> txt]
DoneEvt(j) == [job |-> j, kind |-> "done", percent |-> 100, text |-> ""]

(* Job::update_status(st, msg), called on the worker context *)
update_status(j, pct, txt) == evq' = Append(evq, StatusEvt(j, pct, txt))

(* SLAJob::SLAJob and Job::start(): a new job object whose worker is about
   to enter process(); with started = FALSE the object is only built. *)
NewJob(fname, started) ==
    [m_fname |-> fname, alive |-> TRUE, m_print |-> "null",
     wpc |-> IF started THEN "read" ELSE "built",
     progress |-> 0, fin |-> 0, early |-> FALSE]

(* the unique_ptr lets go of the job it held: that object is destroyed *)
Destroy(js, j) == IF j = 0 THEN js ELSE [js EXCEPT ![j].alive = FALSE]

load_model_without_start(fname) ==
    /\ frame_open
    /\ Len(jobs) < MaxJobs
    /\ jobs' = Append(Destroy(jobs, m_ui_job), NewJob(fname, FALSE))
    /\ m_ui_job' = Len(jobs) + 1
    /\ UNCHANGED <<evq, m_scene, m_stbar, frame_open>>
    /\ UNCHANGED <<recvars, filevars, appvars>>

load_model_keeps_old_job(fname) ==
    /\ frame_open
    /\ Len(jobs) < MaxJobs
    /\ jobs' = Append(jobs, NewJob(fname, TRUE))
    /\ m_ui_job' = Len(jobs) + 1
    /\ UNCHANGED <<evq, m_scene, m_stbar, frame_open>>
    /\ UNCHANGED <<recvars, filevars, appvars>>

load_model(fname) ==
    /\ frame_open
    /\ Len(jobs) < MaxJobs
    /\ jobs' = Append(Destroy(jobs, m_ui_job), NewJob(fname, TRUE))
    /\ m_ui_job' = Len(jobs) + 1
    /\ UNCHANGED <<evq, m_scene, m_stbar, frame_open>>
    /\ UNCHANGED <<recvars, filevars, appvars>>

(* SLAJob::process(), on the worker context of job j, step by step. *)

(* Model::read_from_file: it returns, or throws outside any try block *)
process_read(j, ok) ==
    /\ frame_open
    /\ jobs[j].wpc = "read"
    /\ jobs' = [jobs EXCEPT ![j].wpc = IF ok THEN "apply" ELSE "threw"]
    /\ UNCHANGED <<m_ui_job, evq, m_scene, m_stbar, frame_open>>
    /\ UNCHANGED <<recvars, filevars, appvars>>

(* m_print is made and the model applied; apply may throw, also outside
   the try block *)
process_apply(j, ok) ==
    /\ frame_open
    /\ jobs[j].wpc = "apply"
    /\ jobs' = [jobs EXCEPT ![j].m_print = "applied",
                            ![j].wpc = IF ok THEN "slice" ELSE "threw"]
    /\ UNCHANGED <<m_ui_job, evq, m_scene, m_stbar, frame_open>>
    /\ UNCHANGED <<recvars, filevars, appvars>>

(* inside m_print->process(): the status callback reports progress *)
process_status(j, pct) ==
    /\ frame_open
    /\ jobs[j].wpc = "slice"
    /\ pct > jobs[j].progress
    /\ jobs' = [jobs EXCEPT ![j].progress = pct]
    /\ update_status(j, pct, "slicing")
    /\ UNCHANGED <<m_ui_job, m_scene, m_stbar, frame_open>>
    /\ UNCHANGED <<recvars, filevars, appvars>>

(* m_print->process() returns, or throws a std::exception that the catch
   block turns into update_status(0, ...); process() returns either way *)
process_slice(j, ok) ==
    /\ frame_open
    /\ jobs[j].wpc = "slice"
    /\ jobs' = [jobs EXCEPT ![j].m_print = IF ok THEN "sliced" ELSE "partial",
                            ![j].wpc = "returned"]
    /\ IF ok THEN UNCHANGED evq
             ELSE \E what \in Whats :
                      update_status(j, 0, "Exception during processing: " \o what)
    /\ UNCHANGED <<m_ui_job, m_scene, m_stbar, frame_open>>
    /\ UNCHANGED <<recvars, filevars, appvars>>

(* The job boundary on the worker context: a failure that left process()
   is caught and reported with percent 0, and the completion is queued. *)
job_boundary(j) ==
    /\ frame_open
    /\ jobs[j].wpc \in {"returned", "threw"}
    /\ jobs' = [jobs EXCEPT ![j].wpc = "finished"]
    /\ evq' = evq
              \o (IF jobs[j].wpc = "threw"
                  THEN <<StatusEvt(j, 0, "failure")>> ELSE <<>>)
              \o <<DoneEvt(j)>>
    /\ UNCHANGED <<m_ui_job, m_scene, m_stbar, frame_open>>
    /\ UNCHANGED <<recvars, filevars, appvars>>

(* SLAJob::finalize(), run for job j: the print is moved into the Scene
   and the status text set. *)
finalize(j) ==
    /\ m_scene' = [job |-> j, print |-> jobs[j].m_print]
    /\ m_stbar' = [percent |-> m_stbar.percent,
                   text |-> "Model " \o jobs[j].m_fname \o " loaded."]
    /\ jobs' = [jobs EXCEPT ![j].m_print = "null",
                            ![j].fin = @ + 1,
                            ![j].early = @ \/ jobs[j].wpc # "finished"]

(* The interactive context takes the oldest queued event: nothing happens
   for a destroyed job; a status report is shown; a completion runs
   finalize(). *)
deliver ==
    /\ frame_open
    /\ evq # <<>>
    /\ evq' = Tail(evq)
    /\ LET e == Head(evq) IN
        IF ~jobs[e.job].alive
        THEN UNCHANGED <<jobs, m_scene, m_stbar>>
        ELSE IF e.kind = "status"
        THEN /\ m_stbar' = [percent |-> e.percent, text |-> e.text]
             /\ UNCHANGED <<jobs, m_scene>>
        ELSE finalize(e.job)
    /\ UNCHANGED <<m_ui_job, frame_open>>
    /\ UNCHANGED <<recvars, filevars, appvars>>

(* wxEVT_CLOSE_WINDOW: the frame is destroyed and m_ui_job with it; the
   application ends with its only frame, and its workers with it *)
close ==
    /\ frame_open
    /\ frame_open' = FALSE
    /\ jobs' = Destroy(jobs, m_ui_job)
    /\ m_ui_job' = 0
    /\ UNCHANGED <<evq, m_scene, m_stbar>>
    /\ UNCHANGED <<recvars, filevars, appvars>>

JobInit ==
    /\ m_ui_job = 0
    /\ jobs = <<>>
    /\ evq = <<>>
    /\ m_scene = NoPrint
    /\ m_stbar = [percent |-> 0, text |-> ""]
    /\ frame_open = TRUE

---------------------------------------------------------------------------
(* The settings controls of MyFrame::MyFrame and their handlers.  CSGSettings
   and Display::get_csgsettings / apply_csgsettings (GLScene.hpp) are
   modelled from their contract: a value object with five fields, whose
   set_convexity ignores a value that is not positive and whose other
   setters replace their field; the Display holds the value applied last. *)

\* largest value of the convexity spin control (0..100 in the program)
MaxSpin == 2

Algorithms == 0..2          \* "Auto", "Goldfeather", "SCS"
DepthAlgorithms == 0..2     \* "Off", "OcclusionQuery", "On"
Optimizations == 0..3       \* "Default", "ForceOn", "On", "Off"

CSGSettings(dc) ==
    [enabled |-> TRUE, algo |-> 0, depth_algo |-> 0, optimization |-> 0,
     convexity |-> dc]

enable_csg(st, en) == [st EXCEPT !.enabled = en]
set_algo(st, alg) == [st EXCEPT !.algo = alg]
set_depth_algo(st, alg) == [st EXCEPT !.depth_algo = alg]
set_optimization(st, o) == [st EXCEPT !.optimization = o]
set_convexity(st, c) == IF c > 0 THEN [st EXCEPT !.convexity = c] ELSE st

get_csgsettings == m_csgsettings
apply_csgsettings(st) == m_csgsettings' = st

(* the controls as the constructor makes them: the CSG toggle set, the
   comboboxes on their first entry, depth_select disabled, the spin control
   on the default convexity dc *)
Controls(dc) ==
    [csg_toggle |-> TRUE, alg_select |-> 0, depth_select |-> 0,
     depth_enabled |-> FALSE, optimization_select |-> 0,
     convexity_spin |-> dc]

Eff(k) == [k |-> k, e |-> NoEvent, c |-> NoCall]

(* what a settings handler leaves alone *)
SettingsFrame ==
    /\ UNCHANGED <<m_events, m_recording, m_playing, pc, it_pos, it_end,
                   it_valid, play_rec, live>>
    /\ UNCHANGED <<filevars, jobvars>>
    /\ UNCHANGED <<args, oninit, header, record_btn>>

csg_toggle_handler ==
    /\ frame_open
    /\ widgets' = [widgets EXCEPT !.csg_toggle = ~widgets.csg_toggle]
    /\ LET settings == enable_csg(get_csgsettings, widgets'.csg_toggle) IN
       apply_csgsettings(settings)
    /\ last' = Last("csg_toggle", NoCall, FALSE, <<Eff("apply")>>)
    /\ SettingsFrame

alg_select_handler_fresh(sel) ==
    /\ frame_open
    /\ widgets' = [widgets EXCEPT !.alg_select = sel, !.depth_enabled = sel > 0]
    /\ LET settings == set_algo(CSGSettings(1), sel) IN
       apply_csgsettings(settings)
    /\ last' = Last("alg_select", NoCall, FALSE, <<Eff("apply")>>)
    /\ SettingsFrame

alg_select_handler(sel) ==
    /\ frame_open
    /\ widgets' = [widgets EXCEPT !.alg_select = sel, !.depth_enabled = sel > 0]
    /\ LET settings == set_algo(get_csgsettings, sel) IN
       apply_csgsettings(settings)
    /\ last' = Last("alg_select", NoCall, FALSE, <<Eff("apply")>>)
    /\ SettingsFrame

depth_select_handler(sel) ==
    /\ frame_open
    /\ widgets.depth_enabled
    /\ widgets' = [widgets EXCEPT !.depth_select = sel]
    /\ LET settings == set_depth_algo(get_csgsettings, sel) IN
       apply_csgsettings(settings)
    /\ last' = Last("depth_select", NoCall, FALSE, <<Eff("apply")>>)
    /\ SettingsFrame

optimization_select_handler(sel) ==
    /\ frame_open
    /\ widgets' = [widgets EXCEPT !.optimization_select = sel]
    /\ LET settings == set_optimization(get_csgsettings, sel) IN
       apply_csgsettings(settings)
    /\ last' = Last("optimization_select", NoCall, FALSE, <<Eff("apply")>>)
    /\ SettingsFrame

convexity_spin_handler_unchecked(c) ==
    /\ frame_open
    /\ widgets' = [widgets EXCEPT !.convexity_spin = c]
    /\ LET settings == [get_csgsettings EXCEPT !.convexity = c] IN
       apply_csgsettings(settings)
    /\ last' = Last("convexity_spin", NoCall, FALSE, <<Eff("apply")>>)
    /\ SettingsFrame

convexity_spin_handler(c) ==
    /\ frame_open
    /\ widgets' = [widgets EXCEPT !.convexity_spin = c]
    /\ IF c > 0
       THEN /\ LET settings == set_convexity(get_csgsettings, c) IN
               apply_csgsettings(settings)
            /\ last' = Last("convexity_spin", NoCall, FALSE, <<Eff("apply")>>)
       ELSE /\ UNCHANGED m_csgsettings
            /\ last' = Last("convexity_spin", NoCall, FALSE, <<>>)
    /\ SettingsFrame

(* The Record toggle button.  The button has changed its value when the
   handler runs.  cam: the canvas has a camera; ok: the file dialog was
   confirmed; opened: the output file could be opened. *)

NoProject_unchecked == FALSE

(* the guard of the handler: no job was ever put into m_ui_job *)
NoProject == m_ui_job = 0

StartRecording_record_first(cam) ==
    <<Eff("record")>>
    \o (IF cam THEN <<Eff("reset")>> ELSE <<>>)
    \o <<Eff("on_scene_updated")>>

(* the calls of the start branch, in the order the handler makes them *)
StartRecording(cam) ==
    (IF cam THEN <<Eff("reset")>> ELSE <<>>)
    \o <<Eff("on_scene_updated"), Eff("record")>>

record_btn_handler(cam, ok, opened) ==
    /\ frame_open
    /\ pc = "idle"
    /\ record_btn' = ~record_btn
    /\ UNCHANGED <<m_playing, pc, it_pos, it_end, it_valid, play_rec>>
    /\ UNCHANGED <<m_ui_job, jobs, evq, m_scene, frame_open>>
    /\ UNCHANGED <<args, oninit, m_csgsettings, widgets>>
    /\ IF NoProject
       THEN /\ m_stbar' = [m_stbar EXCEPT !.text = "No project loaded!"]
            /\ last' = Last("record_btn", NoCall, cam, <<Eff("status")>>)
            /\ UNCHANGED <<m_events, m_recording, live, filevars, header>>
       ELSE IF record_btn'
       THEN /\ m_recording' = TRUE
            /\ m_events' = <<>>
            /\ live' = <<>>
            /\ last' = Last("record_btn", NoCall, cam, StartRecording(cam))
            /\ UNCHANGED <<m_stbar, filevars, header>>
       ELSE /\ m_recording' = FALSE
            /\ UNCHANGED <<m_events, live, m_stbar>>
            /\ IF ok /\ opened
               THEN /\ header' = jobs[m_ui_job].m_fname
                    /\ stream' = Written(m_events)
                    /\ written' = m_events
                    /\ ending' = "saved"
                    /\ last' = Last("record_btn", NoCall, cam,
                                    <<Eff("record"), Eff("save")>>)
               ELSE /\ UNCHANGED <<filevars, header>>
                    /\ last' = Last("record_btn", NoCall, cam, <<Eff("record")>>)

(* App::OnInit, up to its return or, in play mode, up to the first
   wxSafeYield() of play().  The frame is constructed and shown; with the
   command "play", play_back_mouse opens the event file and, if that
   succeeds, reads the header line, starts the load job, loads the log and
   plays it; Close(true) follows when play_back_mouse has returned. *)

command == IF args.argc > 2 THEN args.argv1 ELSE ""

OnInit ==
    /\ ~oninit
    /\ oninit' = TRUE
    /\ UNCHANGED <<m_recording, live, filevars>>
    /\ UNCHANGED <<evq, m_scene, m_stbar>>
    /\ UNCHANGED <<args, header, record_btn, m_csgsettings, widgets>>
    /\ IF command = "play" /\ args.openable
       THEN \E evts \in LoadLoop(IStream(stream), <<>>) :
            LET model_name == header
                started == Append(Destroy(jobs, m_ui_job), NewJob(model_name, TRUE))
            IN /\ m_events' = evts
               /\ it_valid' = TRUE
               /\ IF evts = <<>>
                  THEN /\ m_playing' = FALSE
                       /\ pc' = "idle"
                       /\ it_pos' = 0
                       /\ it_end' = 0
                       /\ play_rec' = FALSE
                       /\ last' = Last("play", NoCall, FALSE, <<>>)
                       /\ jobs' = Destroy(started, Len(started))
                       /\ m_ui_job' = 0
                       /\ frame_open' = FALSE
                  ELSE /\ m_playing' = TRUE
                       /\ pc' = "yield"
                       /\ it_pos' = 1
                       /\ it_end' = Len(evts)
                       /\ play_rec' = m_recording
                       /\ last' = Last("play", NoCall, FALSE,
                                       Inject(evts[1]) \o <<Eff("yield")>>)
                       /\ jobs' = started
                       /\ m_ui_job' = Len(started)
                       /\ UNCHANGED frame_open
       ELSE /\ last' = Last("oninit", NoCall, FALSE, <<>>)
            /\ UNCHANGED <<m_events, m_playing, pc, it_pos, it_end, it_valid,
                           play_rec>>
            /\ UNCHANGED <<m_ui_job, jobs>>
            /\ frame_open' = (command # "play")

(* play_back_mouse has returned: OnInit goes on to Close(true) *)
OnInit_Close ==
    /\ oninit
    /\ command = "play"
    /\ pc = "idle"
    /\ close

(* the application as App::OnInit leaves it when it is started without the
   play command: the frame shown, no event file, the controls and the
   Display's settings as constructed (default convexity dc) *)
AppInitWith(dc) ==
    /\ args = [argc |-> 1, argv1 |-> "", openable |-> FALSE]
    /\ oninit = TRUE
    /\ header = ""
    /\ record_btn = FALSE
    /\ m_csgsettings = CSGSettings(dc)
    /\ widgets = Controls(dc)

AppInit == AppInitWith(1)

---------------------------------------------------------------------------
RecInit ==
    /\ m_events = <<>>
    /\ m_recording = FALSE
    /\ m_playing = FALSE
    /\ pc = "idle"
    /\ it_pos = 0
    /\ it_end = 0
    /\ it_valid = TRUE
    /\ play_rec = FALSE
    /\ last = Last("init", NoCall, FALSE, <<>>)
    /\ live = <<>>

FileInit ==
    /\ stream = <<>>
    /\ written = <<>>
    /\ ending = "none"

Init == RecInit /\ FileInit /\ JobInit /\ AppInit

Next ==
    \/ left_click_down
    \/ left_click_up
    \/ right_click_down
    \/ right_click_up
    \/ double_click
    \/ \E w \in Wheel, wa \in WheelAxis : scroll(w[1], w[2], wa)
    \/ \E p \in Points : move_to(p[1], p[2])
    \/ \E r \in BOOLEAN : record(r)
    \/ play
    \/ play_resume
    \/ play_fault

Spec == Init /\ [][Next]_vars

(* The text format on its own: a log that a recording session can have
   built is saved, the text possibly changed at its end, and loaded. *)
Loggable ==
    {Event(t, 0, 0) : t \in {LCLK_U, RCLK_U, LCLK_D, RCLK_D, DDCLK}}
    \cup {Event(SCRL, w[1], w[2]) : w \in Wheel}
    \cup {Event(MV, p[1], p[2]) : p \in Points}

Logs == UNION {[1..n -> Loggable] : n \in 0..MaxLog}

FormatInit ==
    /\ RecInit!2 /\ RecInit!3 /\ RecInit!4 /\ RecInit!5 /\ RecInit!6
    /\ RecInit!7 /\ RecInit!8 /\ RecInit!9 /\ RecInit!10
    /\ m_events \in Logs
    /\ FileInit
    /\ JobInit
    /\ AppInit

FormatNext ==
    \/ save
    \/ \E e \in DOMAIN Endings : edit_file(e)
    \/ load

SpecFormat == FormatInit /\ [][FormatNext]_vars

(* The load jobs on their own: the menu starts jobs, the workers run, the
   interactive context delivers what they queue, the frame may be
   closed. *)
Worker(j) ==
    \/ \E ok \in BOOLEAN : process_read(j, ok)
    \/ \E ok \in BOOLEAN : process_apply(j, ok)
    \/ \E pct \in Percents : process_status(j, pct)
    \/ \E ok \in BOOLEAN : process_slice(j, ok)
    \/ job_boundary(j)

JobNext ==
    \/ \E f \in Files : load_model(f)
    \/ \E j \in 1..Len(jobs), ok \in BOOLEAN : process_read(j, ok)
    \/ \E j \in 1..Len(jobs), ok \in BOOLEAN : process_apply(j, ok)
    \/ \E j \in 1..Len(jobs), pct \in Percents : process_status(j, pct)
    \/ \E j \in 1..Len(jobs), ok \in BOOLEAN : process_slice(j, ok)
    \/ \E j \in 1..Len(jobs) : job_boundary(j)
    \/ deliver
    \/ close

SpecJob == Init /\ [][JobNext]_vars

(* The worker threads are scheduled and the event loop of the interactive
   context keeps running while the frame is open. *)
SpecJobFair ==
    /\ Init
    /\ [][JobNext]_vars
    /\ \A j \in 1..MaxJobs : WF_vars(j <= Len(jobs) /\ Worker(j))
    /\ WF_vars(deliver)

(* The settings controls on their own, for any positive default
   convexity. *)
SettingsInit ==
    /\ RecInit /\ FileInit /\ JobInit
    /\ \E dc \in 1..MaxSpin : AppInitWith(dc)

SettingsNext ==
    \/ csg_toggle_handler
    \/ \E sel \in Algorithms : alg_select_handler(sel)
    \/ \E sel \in DepthAlgorithms : depth_select_handler(sel)
    \/ \E sel \in Optimizations : optimization_select_handler(sel)
    \/ \E c \in 0..MaxSpin : convexity_spin_handler(c)

SpecSettings == SettingsInit /\ [][SettingsNext]_vars

(* The frame in interactive use, up to the first event file it writes: the
   File/Open menu starts load jobs, the canvas reports the mouse events
   bound in bind_canvas_events, the Record button starts and ends recording
   sessions.  Nothing calls play() here, and the progress of the load jobs
   (SpecJob) does not touch the recorder. *)
GuiNext ==
    \/ \E f \in Files : load_model(f)
    \/ frame_open /\ \E w \in Wheel, wa \in WheelAxis : scroll(w[1], w[2], wa)
    \/ frame_open /\ \E p \in Points : move_to(p[1], p[2])
    \/ frame_open /\ right_click_down
    \/ frame_open /\ right_click_up
    \/ frame_open /\ left_click_down
    \/ frame_open /\ left_click_up
    \/ ending = "none" /\ \E cam, ok, opened \in BOOLEAN : record_btn_handler(cam, ok, opened)
    \/ close

SpecGui == Init /\ [][GuiNext]_vars

(* The application from its start, for any command line and any event
   file that the Record button can have written.  In play mode the
   interactive context is inside OnInit all the time: queued job events
   are handled only while play() is suspended in wxSafeYield(), which
   keeps user input away. *)
CliInit ==
    /\ RecInit /\ JobInit
    /\ args \in [argc : 1..3, argv1 : {"play", "record"}, openable : BOOLEAN]
    /\ oninit = FALSE
    /\ header \in Files
    /\ written \in Logs
    /\ stream = Written(written)
    /\ ending = "saved"
    /\ record_btn = FALSE
    /\ m_csgsettings = CSGSettings(1)
    /\ widgets = Controls(1)

CliNext ==
    \/ OnInit
    \/ play_resume
    \/ OnInit_Close
    \/ \E j \in 1..Len(jobs), ok \in BOOLEAN : process_read(j, ok)
    \/ \E j \in 1..Len(jobs), ok \in BOOLEAN : process_apply(j, ok)
    \/ \E j \in 1..Len(jobs), pct \in Percents : process_status(j, pct)
    \/ \E j \in 1..Len(jobs), ok \in BOOLEAN : process_slice(j, ok)
    \/ \E j \in 1..Len(jobs) : job_boundary(j)
    \/ pc = "yield" /\ deliver

SpecCli == CliInit /\ [][CliNext]_vars

---------------------------------------------------------------------------
(* Properties of the recorder *)

Idle == ~m_recording /\ ~m_playing
Recording == m_recording /\ ~m_playing
Playing == m_playing /\ ~m_recording

(* The event a report call stands for in the log: the kind's ordinal in the
   order of the log format, and the two parameters of the call. *)
KindOf(m) ==
    CASE m = "left_click_up" -> 0
      [] m = "right_click_up" -> 1
      [] m = "left_click_down" -> 2
      [] m = "right_click_down" -> 3
      [] m = "double_click" -> 4
      [] m = "scroll" -> 5
      [] m = "move_to" -> 6
      [] OTHER -> -1

EventOf(c) == [type |-> KindOf(c.m), a |-> c.a, b |-> c.b]

(* C1: in every reachable state of the recorder, m_recording and m_playing
   are never both true. *)
C1_NeverRecordingAndPlaying == ~(m_recording /\ m_playing)

(* C2: an ordering violation is rejected: play() called while Recording
   dispatches nothing, leaves the state Recording and the log unchanged;
   record(true) called while Playing leaves the state Playing and the log
   unchanged. *)
C2_OrderingViolationRejected ==
    [][ /\ (last'.op = "play" /\ Recording)
            => (last'.out = <<>> /\ Recording' /\ m_events' = m_events)
        /\ (last'.op = "record" /\ last'.r /\ Playing)
            => (Playing' /\ m_events' = m_events) ]_vars

(* C3: round trip: loading the text that save() wrote for a log yields a
   log equal to it, element by element. *)
C3_SaveLoadRoundTrip ==
    (last.op = "load" /\ ending = "saved") => m_events = written

(* C4: load() appends an event only for a record whose three integers were
   read: a text of k well-formed records followed by nothing, by white
   space or by an incomplete or malformed record gives exactly those k
   events. *)
C4_LoadStopsAtEndOfLog ==
    last.op = "load" =>
        /\ Len(m_events) = Len(written)
        /\ \A i \in 1..Len(written) : m_events[i] = written[i]

(* C5: a play() after a recording session delivers to the listeners exactly
   the calls they received live during the session: the k-th injected call
   is the k-th live call (method, arguments and wheel axis), and the play
   ends after as many calls as were received live. *)
C5_ReplayDeliversLiveCalls ==
    [][ /\ (last'.op \in {"play", "resume"} /\ pc' = "yield" /\ ~play_rec')
            => (it_pos' <= Len(live) /\ last'.out = <<live[it_pos']>>)
        /\ (last'.op = "return" /\ ~play_rec)
            => it_pos = Len(live) ]_vars

(* C6: the log is immutable while replaying: from the step that sets
   m_playing to the step that clears it, m_events does not change. *)
C6_LogImmutableWhilePlaying ==
    [][ (m_playing /\ m_playing') => m_events' = m_events ]_vars

(* C7: a report operation appends exactly its own event at the end of the
   log when recording (before forwarding), leaves the log alone otherwise,
   is forwarded exactly once when not playing and not at all when
   playing. *)
C7_ReportContract ==
    [][ last'.op = "report" =>
          /\ m_recording => m_events' = Append(m_events, EventOf(last'.call))
          /\ ~m_recording => m_events' = m_events
          /\ ~m_playing => last'.out = <<last'.call>>
          /\ m_playing => last'.out = <<>>
          /\ last'.fx = (IF m_recording THEN <<"log">> ELSE <<>>)
                         \o (IF ~m_playing THEN <<"fwd">> ELSE <<>>)
          /\ m_recording' = m_recording /\ m_playing' = m_playing ]_vars

C7_Witness ==
    /\ last.op = "report"
    /\ last.fx = <<"log", "fwd">>
    /\ Recording
    /\ Len(m_events) >= 2
    /\ m_events[Len(m_events)] = EventOf(last.call)

(* C8 as stated: record(true) in Idle empties the log and sets Recording;
   within a session the log grows only by the reported events;
   record(false) sets the state to Idle and keeps the log; neither
   forwards anything. *)
C8_RecordSetsIdle ==
    [][ /\ (last'.op = "record" /\ last'.r /\ Idle)
            => (m_events' = <<>> /\ Recording' /\ last'.out = <<>>)
        /\ (last'.op = "record" /\ ~last'.r /\ ~(m_recording /\ m_playing))
            => (Idle' /\ m_events' = m_events /\ last'.out = <<>>)
        /\ (m_recording' /\ last'.op # "record")
            => \/ m_events' = m_events
               \/ /\ last'.op = "report"
                  /\ m_events' = Append(m_events, EventOf(last'.call)) ]_vars

(* C8 amended: record(false) clears the recording flag and leaves the log
   and the playing flag as they were, so the state is Idle afterwards
   unless a playback is in progress; the rest as stated. *)
C8_RecordContract ==
    [][ /\ (last'.op = "record" /\ last'.r /\ Idle)
            => (m_events' = <<>> /\ Recording' /\ last'.out = <<>>)
        /\ (last'.op = "record" /\ ~last'.r)
            => /\ ~m_recording'
               /\ m_playing' = m_playing
               /\ (~m_playing => Idle')
               /\ m_events' = m_events
               /\ last'.out = <<>>
        /\ (m_recording' /\ last'.op # "record")
            => \/ m_events' = m_events
               \/ /\ last'.op = "report"
                  /\ m_events' = Append(m_events, EventOf(last'.call)) ]_vars

C8_Witness ==
    /\ last.op = "record"
    /\ ~last.r
    /\ Idle
    /\ Len(m_events) >= 2
    /\ Len(live) = Len(m_events)

(* C9: play() started from Idle injects the log's events one at a time in
   log order, yields once after each, and returns with the state Idle; on
   an empty log it returns at once without injecting or yielding. *)
C9_PlayInjectsInOrderAndEndsIdle ==
    [][ /\ (last'.op = "play" /\ Idle /\ m_events = <<>>)
            => (Idle' /\ pc' = "idle" /\ last'.fx = <<>>)
        /\ (last'.op \in {"play", "resume"} /\ pc' = "yield" /\ ~play_rec')
            => /\ last'.fx = <<"fwd", "yield">>
               /\ it_pos' <= Len(m_events')
               /\ EventOf(last'.out[1]) = m_events'[it_pos']
        /\ (last'.op = "return" /\ ~play_rec)
            => (Idle' /\ it_pos = it_end /\ it_end = Len(m_events))
        /\ (last'.op = "fault") => play_rec ]_vars

---------------------------------------------------------------------------
(* Properties of the load job *)

Made(j) == j <= Len(jobs)
Finalized(j) == Made(j) /\ jobs[j].fin = 1
Abandoned(j) == Made(j) /\ ~jobs[j].alive

(* job j's worker is through and nothing of j is queued any more *)
Settled(j) ==
    /\ Made(j)
    /\ jobs[j].wpc = "finished"
    /\ \A i \in 1..Len(evq) : evq[i].job # j

(* C10 as stated: every job that load_model started gets exactly one
   finalize(): never two, and not none once its work and its queued events
   are through. *)
C10_EveryJobFinalizedOnce ==
    \A j \in 1..Len(jobs) :
        /\ jobs[j].fin <= 1
        /\ Settled(j) => jobs[j].fin = 1

(* C10 amended: finalize() runs at most once per job, only after process()
   has been left and its completion was handed to the interactive context;
   it runs exactly once for every job that is not abandoned (replaced by a
   later load_model, or destroyed with the frame) before that hand-off is
   delivered, whether process() succeeded or failed. *)
C10_FinalizedOnceUnlessAbandoned ==
    /\ [](\A j \in 1..Len(jobs) :
            /\ jobs[j].fin <= 1
            /\ ~jobs[j].early
            /\ jobs[j].fin = 1 => jobs[j].wpc = "finished"
            /\ (Settled(j) /\ jobs[j].alive) => jobs[j].fin = 1)
    /\ \A j \in 1..MaxJobs : [](Made(j) => <>(Finalized(j) \/ Abandoned(j)))

(* a job whose process() failed was finalized once, after an earlier job
   was abandoned without a finalize() *)
C10_Witness ==
    \E j, k \in 1..Len(jobs) :
        /\ jobs[j].fin = 1 /\ jobs[j].alive /\ m_ui_job = j
        /\ m_scene.job = j /\ m_scene.print # "sliced"
        /\ k < j /\ Settled(k) /\ jobs[k].fin = 0

---------------------------------------------------------------------------
(* Properties of the settings handlers *)

SettingsOps ==
    {"csg_toggle", "alg_select", "depth_select", "optimization_select",
     "convexity_spin"}

(* C14: the convexity the Display holds is positive in every reachable
   state; a convexity event with a value of 0 changes nothing and applies
   nothing, one with a value c > 0 makes the applied convexity exactly c. *)
C14_ConvexityStaysPositive ==
    /\ [](m_csgsettings.convexity > 0)
    /\ [][ last'.op = "convexity_spin" =>
             IF widgets'.convexity_spin > 0
             THEN /\ m_csgsettings'.convexity = widgets'.convexity_spin
                  /\ last'.fx = <<"apply">>
             ELSE /\ m_csgsettings' = m_csgsettings
                  /\ last'.fx = <<>> ]_vars

(* a rejected 0 after a convexity above the default was applied *)
C14_Witness ==
    /\ last.op = "convexity_spin"
    /\ last.fx = <<>>
    /\ widgets.convexity_spin = 0
    /\ m_csgsettings.convexity = MaxSpin

(* C17 as stated: every settings handler writes the value selected in its
   control into its own field, leaves the other fields as they were and
   applies the whole value, so every field is the value selected last. *)
C17_FieldsAreLastSelected ==
    [][ /\ last'.op \in SettingsOps => last'.fx = <<"apply">>
        /\ last'.op = "csg_toggle" =>
             m_csgsettings' = [m_csgsettings EXCEPT !.enabled = widgets'.csg_toggle]
        /\ last'.op = "alg_select" =>
             m_csgsettings' = [m_csgsettings EXCEPT !.algo = widgets'.alg_select]
        /\ last'.op = "depth_select" =>
             m_csgsettings' = [m_csgsettings EXCEPT !.depth_algo = widgets'.depth_select]
        /\ last'.op = "optimization_select" =>
             m_csgsettings' = [m_csgsettings EXCEPT
                                  !.optimization = widgets'.optimization_select]
        /\ last'.op = "convexity_spin" =>
             m_csgsettings' = [m_csgsettings EXCEPT
                                  !.convexity = widgets'.convexity_spin] ]_vars

(* C17 amended: the same for the CSG toggle, the algorithm, the depth
   algorithm and the optimization; the convexity handler does so for a
   positive value only and for 0 applies nothing, so the convexity field is
   the positive value selected last (or the initial one). *)
C17_HandlersWriteOwnField ==
    /\ [](/\ m_csgsettings.enabled = widgets.csg_toggle
          /\ m_csgsettings.algo = widgets.alg_select
          /\ m_csgsettings.depth_algo = widgets.depth_select
          /\ m_csgsettings.optimization = widgets.optimization_select
          /\ widgets.convexity_spin > 0
               => m_csgsettings.convexity = widgets.convexity_spin)
    /\ [][ /\ last'.op = "csg_toggle" =>
                /\ last'.fx = <<"apply">>
                /\ m_csgsettings' =
                     [m_csgsettings EXCEPT !.enabled = widgets'.csg_toggle]
           /\ last'.op = "alg_select" =>
                /\ last'.fx = <<"apply">>
                /\ m_csgsettings' =
                     [m_csgsettings EXCEPT !.algo = widgets'.alg_select]
           /\ last'.op = "depth_select" =>
                /\ last'.fx = <<"apply">>
                /\ m_csgsettings' =
                     [m_csgsettings EXCEPT !.depth_algo = widgets'.depth_select]
           /\ last'.op = "optimization_select" =>
                /\ last'.fx = <<"apply">>
                /\ m_csgsettings' =
                     [m_csgsettings EXCEPT
                         !.optimization = widgets'.optimization_select]
           /\ (last'.op = "convexity_spin" /\ widgets'.convexity_spin > 0) =>
                /\ last'.fx = <<"apply">>
                /\ m_csgsettings' =
                     [m_csgsettings EXCEPT
                         !.convexity = widgets'.convexity_spin]
           /\ (last'.op = "convexity_spin" /\ widgets'.convexity_spin = 0) =>
                /\ last'.fx = <<>>
                /\ m_csgsettings' = m_csgsettings ]_vars

(* the algorithm was selected after every other field had been changed *)
C17_Witness ==
    /\ last.op = "alg_select"
    /\ m_csgsettings.algo = 2
    /\ ~m_csgsettings.enabled
    /\ m_csgsettings.depth_algo = 1
    /\ m_csgsettings.optimization = 3
    /\ m_csgsettings.convexity = MaxSpin

---------------------------------------------------------------------------
(* Further properties of the load job *)

(* C11: no failure leaves SLAJob::process(): whatever step fails, process()
   catches the failure and reports it with percent 0 and a text. *)
C11_NoFailureLeavesProcess ==
    \A j \in 1..Len(jobs) : jobs[j].wpc # "threw"

(* C12: a failed load never replaces the Scene's print with a partial or
   absent one, and once the failed job is through (finalize() included) the
   status shown is its failure report: percent 0 and the failure's text. *)
C12_FailureReportIsTerminal ==
    /\ m_scene.job # 0 => m_scene.print = "sliced"
    /\ \A j \in 1..Len(jobs) :
         ( /\ frame_open /\ m_ui_job = j /\ Settled(j) /\ jobs[j].fin = 1
           /\ m_scene.job = j /\ m_scene.print # "sliced" )
         => /\ m_stbar.percent = 0
            /\ m_stbar.text \notin {"", "Model " \o jobs[j].m_fname \o " loaded."}

(* C13: after load_model has replaced a job, nothing of the replaced job
   reaches the Scene or the status bar: every write of either is made for
   the job that m_ui_job holds; the Scene's print is written only by a
   finalize(), at most once per job; and once the job started last has been
   finalized the Scene holds its print. *)
C13_AbandonedJobWritesNothing ==
    /\ [][ (m_scene' # m_scene \/ m_stbar' # m_stbar) =>
             /\ evq # <<>>
             /\ Head(evq).job = m_ui_job
             /\ m_ui_job' = m_ui_job ]_vars
    /\ [][ m_scene' # m_scene =>
             /\ m_ui_job # 0
             /\ jobs'[m_ui_job].fin = jobs[m_ui_job].fin + 1
             /\ m_scene'.job = m_ui_job ]_vars
    /\ [](\A j \in 1..Len(jobs) : jobs[j].fin <= 1)
    /\ []((m_ui_job # 0 /\ jobs[m_ui_job].fin = 1) => m_scene.job = m_ui_job)

(* a job that had reported progress was replaced; what it had queued was
   dropped, and the job started after it committed its sliced print *)
C13_Witness ==
    /\ Len(jobs) >= 2
    /\ m_ui_job = Len(jobs)
    /\ jobs[m_ui_job].fin = 1
    /\ m_scene = [job |-> m_ui_job, print |-> "sliced"]
    /\ \E k \in 1..(m_ui_job - 1) :
         /\ ~jobs[k].alive
         /\ jobs[k].progress > 0
         /\ jobs[k].fin = 0
         /\ Settled(k)

---------------------------------------------------------------------------
(* Properties of the Record button and of the file it writes *)

(* the pieces of text between the separators sep *)
RECURSIVE Split(_, _)
Split(text, sep) ==
    IF text = <<>> THEN << <<>> >>
    ELSE LET rest == Split(Tail(text), sep) IN
         IF Head(text) = sep THEN << <<>> >> \o rest
         ELSE << <<Head(text)>> \o rest[1] >> \o Tail(rest)

(* the integer a token denotes, if it is a decimal number *)
ParseInt(tok) ==
    LET neg == tok # <<>> /\ tok[1] = "-"
        body == IF neg THEN Tail(tok) ELSE tok
        sc == ScanDigits(body, 1, 0)
    IN [ok |-> body # <<>> /\ sc.pos = Len(body) + 1,
        val |-> IF neg THEN 0 - sc.val ELSE sc.val]

Num(n) == [ok |-> TRUE, val |-> n]

(* C16: the file the Record button writes has the current job's file name
   as its header line and then one line "<kind> <paramA> <paramB>" per
   logged event, in log order, kind being the ordinal 0..6 of the reported
   operation; writing it leaves the log as it was. *)
C16_SaveWritesOneLinePerEvent ==
    [][ (record_btn' # record_btn /\ last'.fx = <<"record", "save">>) =>
          LET n == Len(m_events)
              pieces == Split(stream', "\n")
          IN /\ m_events' = m_events
             /\ m_playing' = m_playing
             /\ header' = jobs[m_ui_job].m_fname
             /\ Len(live) = n
             /\ Len(pieces) = n + 1
             /\ pieces[n + 1] = <<>>
             /\ \A i \in 1..n :
                  LET t == Split(pieces[i], " ") IN
                  /\ Len(t) = 3
                  /\ ParseInt(t[1]) = Num(KindOf(live[i].m))
                  /\ ParseInt(t[2]) = Num(live[i].a)
                  /\ ParseInt(t[3]) = Num(live[i].b) ]_vars

(* a full log with a negative parameter and a scroll was written *)
C16_Witness ==
    /\ last.op = "record_btn"
    /\ last.fx = <<"record", "save">>
    /\ header = "a.3mf"
    /\ Len(m_events) = MaxLog
    /\ \E i \in 1..Len(m_events) : m_events[i].a < 0
    /\ \E i \in 1..Len(m_events) : m_events[i].type = SCRL

(* C18: a recording starts only through the Record button, and the start
   branch resets the camera (when there is one) and notifies the Controller
   before it calls record(true); the log is empty when the handler is
   through.  (The button changes its value exactly when its handler
   runs.) *)
C18_BaselineBeforeRecording ==
    [][ /\ (~m_recording /\ m_recording') => last'.op = "record_btn"
        /\ (record_btn' /\ ~record_btn /\ m_ui_job # 0) =>
             /\ last'.fx = (IF last'.r THEN <<"reset">> ELSE <<>>)
                            \o <<"on_scene_updated", "record">>
             /\ m_recording'
             /\ m_events' = <<>> ]_vars

(* a recording was started on a canvas with a camera, after a session that
   had logged events *)
C18_Witness ==
    /\ last.op = "record_btn"
    /\ last.r
    /\ last.fx = <<"reset", "on_scene_updated", "record">>
    /\ m_recording
    /\ m_events = <<>>
    /\ m_stbar.text = "No project loaded!"

(* C19: while no load job was ever started the Record button, pressed or
   released, leaves the recorder Idle and the log and the event file as
   they were, and only sets the status text "No project loaded!"; so the
   recorder is recording only after a load_model. *)
C19_NoProjectNoRecording ==
    /\ [][ (record_btn' # record_btn /\ Len(jobs) = 0) =>
             /\ last'.op = "record_btn"
             /\ Idle /\ Idle'
             /\ m_events' = m_events
             /\ stream' = stream /\ written' = written /\ ending' = ending
             /\ header' = header
             /\ last'.fx = <<"status">>
             /\ m_stbar' = [m_stbar EXCEPT !.text = "No project loaded!"] ]_vars
    /\ [](m_recording => Len(jobs) >= 1)

(* the button was pressed and released again without a project *)
C19_Witness ==
    /\ last.op = "record_btn"
    /\ last.fx = <<"status">>
    /\ ~record_btn
    /\ Len(jobs) = 0
    /\ m_stbar.text = "No project loaded!"
    /\ Idle

---------------------------------------------------------------------------
(* Properties of the play mode *)

PlayMode == command = "play" /\ args.openable

(* a step in which play() injects an event *)
Injects == it_pos' # it_pos /\ pc' = "yield"

(* C15: in play mode with a file that can be opened, OnInit starts exactly
   one job, named by the header line, before anything is dispatched; the
   file's records become the log and each is replayed once in file order;
   the frame is closed only after the replay.  If the file cannot be
   opened, or the command is not "play", no job is started and nothing is
   dispatched. *)
C15_PlayModeReplaysTheFile ==
    [][ /\ Len(jobs') <= 1
        /\ (oninit' /\ ~oninit /\ PlayMode) =>
             /\ Len(jobs') = 1
             /\ jobs'[1].m_fname = header
             /\ m_events' = written
        /\ (oninit' /\ ~oninit /\ ~PlayMode) =>
             /\ jobs' = <<>>
             /\ last'.out = <<>>
             /\ m_events' = m_events
             /\ pc' = "idle"
        /\ Injects =>
             /\ Len(jobs') = 1
             /\ it_pos' <= Len(written)
             /\ last'.out = Forwarded(Inject(written[it_pos']))
        /\ (pc = "yield" /\ pc' = "idle") => it_pos = Len(written)
        /\ (PlayMode /\ frame_open /\ ~frame_open') =>
             (oninit /\ pc = "idle" /\ ~m_playing) ]_vars

(* C20: in play mode no event is injected before the job that
   play_back_mouse started has run finalize() and its print is in the
   Scene, and no finalize() runs while play() is suspended between two
   injected events. *)
C20_ReplayWaitsForTheLoad ==
    [][ /\ Injects =>
             /\ m_ui_job' # 0
             /\ jobs'[m_ui_job'].fin = 1
             /\ m_scene'.job = m_ui_job'
        /\ m_scene' # m_scene => pc # "yield" ]_vars

====
